---- MODULE Spec2Model ----
(***************************************************************************)
(* SierraDithering.process of src/dither-cards.js as a state machine.      *)
(*                                                                         *)
(* One call of process is the steps Begin (lines 18-31: the grayscale      *)
(* buffer is allocated and filled), ScanPixel (lines 36-60: one iteration  *)
(* of the inner loop, the call of distributeErrorGrayscale included),      *)
(* NextRow (the inner loop's exit and the outer loop's y++) and Return     *)
(* (line 64).  CallAgain hands the returned buffer to process once more.   *)
(*                                                                         *)
(* Luminance arithmetic is exact: a grayscale value is a number of         *)
(* thousandths (299*R + 587*G + 114*B) with a binary fraction, so that     *)
(* every product error * k/32 and every sum is represented without         *)
(* rounding.  The Float32Array rounding of the stored values is not        *)
(* modelled.                                                               *)
(***************************************************************************)
EXTENDS Integers, Sequences, FiniteSets, TLC

\* ------------------------------------------------------------------ bounds
MaxW == 6
MaxH == 3
\* images of at most MaxFull pixels are enumerated over the whole palette,
\* larger ones are a background colour with one impulse pixel
MaxFull == 3

\* input pixels <<R, G, B, A>>: luminance 0, 10, 58.7, 60, 76.245, 255
Palette ==
    { <<0, 0, 0, 255>>, <<10, 10, 10, 255>>, <<0, 100, 0, 128>>,
      <<60, 60, 60, 255>>, <<255, 0, 0, 0>>, <<255, 255, 255, 200>> }

\* ------------------------------------------------- exact luminance numbers
\* A number is ip + (fr[1]/B + fr[2]/B^2 + ...) thousandths, B = LimbBase,
\* 0 <= fr[j] < B: ip is the floor of the value in thousandths.
LimbBits == 32 * 32 * 32 * 32
LimbBase == 32 * LimbBits

\* limbs needed so that no division by 32 drops a bit: the value of pixel
\* index j has passed through at most j divisions
Limbs(n) == IF n > 0 THEN (n + 4) \div 5 ELSE 0

NumInt(v, l) == [ip |-> v, fr |-> [j \in 1..l |-> 0]]

\* <<carry, limbs j..Len>> of fr * k
RECURSIVE MulFr(_, _, _)
MulFr(fr, k, j) ==
    IF j > Len(fr) THEN <<0>>
    ELSE LET rest == MulFr(fr, k, j + 1)
             t    == fr[j] * k + rest[1]
         IN  <<t \div LimbBase, t % LimbBase>> \o Tail(rest)

NumMul(a, k) ==
    LET m == MulFr(a.fr, k, 1)
    IN  [ip |-> a.ip * k + m[1], fr |-> Tail(m)]

\* a / 32; exact when the lowest five bits of the last limb are zero
NumDiv32(a) ==
    [ip |-> a.ip \div 32,
     fr |-> [j \in 1..Len(a.fr) |->
                (IF j = 1 THEN a.ip % 32 ELSE a.fr[j - 1] % 32) * LimbBits
                + a.fr[j] \div 32]]

DropsBits(a) == Len(a.fr) > 0 /\ a.fr[Len(a.fr)] % 32 # 0

\* <<carry, limbs j..Len>> of fa + fb
RECURSIVE AddFr(_, _, _)
AddFr(fa, fb, j) ==
    IF j > Len(fa) THEN <<0>>
    ELSE LET rest == AddFr(fa, fb, j + 1)
             t    == fa[j] + fb[j] + rest[1]
         IN  <<t \div LimbBase, t % LimbBase>> \o Tail(rest)

NumAdd(a, b) ==
    LET s == AddFr(a.fr, b.fr, 1)
    IN  [ip |-> a.ip + b.ip + s[1], fr |-> Tail(s)]

\* a < v for an integer v (in thousandths): the fraction is in [0, 1)
NumLess(a, v) == a.ip < v

\* v <= a
NumAtLeast(a, v) == a.ip >= v

NumIsZero(a) == a.ip = 0 /\ \A j \in 1..Len(a.fr) : a.fr[j] = 0

\* ------------------------------------------------------------ the program
VARIABLES
    width, height,   \* imageData.width, imageData.height
    data,            \* imageData.data, the RGBA bytes (data[idx + 1] is byte idx)
    grayscale,       \* the Float32Array of the call (grayscale[i + 1] is entry i)
    pc,              \* "call", "scan", "done" or "threw"
    x, y,            \* the loop variables of lines 34-35
    run,             \* 1: the first call of process, 2: the call on its own output
    \* history
    input,           \* data as it was when the current call began
    out1,            \* the buffer the first call returned
    visited,         \* the pixel indices classified so far in this call, in order
    lastOld,         \* oldPixel, newPixel and error of the last classified pixel
    lastNew,
    lastError,
    lastWrites,      \* the grayscale writes of the last classified pixel, in order
    dataWrites,      \* the data indices written by the last classified pixel
    received,        \* per grayscale entry, the sum of the amounts diffused to it
    exact            \* no division has dropped a bit so far

vars == <<width, height, data, grayscale, pc, x, y, run, input, out1, visited,
          lastOld, lastNew, lastError, lastWrites, dataWrites, received, exact>>

\* the colour levels: lines 41, 50, 56
White == 255
\* line 41, in thousandths
Threshold == 60
Milli == 1000

\* the matrix with a first row that sums to 7/32
matrix_lossy ==
    << <<0, 0, 4, 3>>,
       <<2, 4, 5, 4, 2>>,
       <<0, 2, 3, 2, 0>> >>

\* lines 10-14: this.matrix, numerators over 32 (matrix[r + 1][c + 1] is
\* this.matrix[r][c] * 32)
matrix ==
    << <<0, 0, 5, 3>>,
       <<2, 4, 5, 4, 2>>,
       <<0, 2, 3, 2, 0>> >>

\* the weights taken over 16 instead of 32
Weighted_over16(error, r, c) == NumDiv32(NumMul(error, 2 * matrix[r + 1][c + 1]))

\* error * this.matrix[r][c]
Weighted(error, r, c) == NumDiv32(NumMul(error, matrix[r + 1][c + 1]))

\* line 29: 0.299 * R + 0.587 * G + 0.114 * B
Luminance(r, g, b, l) == NumInt(299 * r + 587 * g + 114 * b, l)

\* oldPixel <= 60 ? 0 : 255
newPixelOf_le(oldPixel) ==
    IF NumLess(oldPixel, Threshold * Milli) \/ oldPixel = NumInt(Threshold * Milli, Len(oldPixel.fr))
    THEN 0 ELSE White

\* oldPixel < 128 ? 0 : 255
newPixelOf_mid(oldPixel) == IF NumLess(oldPixel, 128 * Milli) THEN 0 ELSE White

\* line 41: oldPixel < 60 ? 0 : 255
newPixelOf(oldPixel) == IF NumLess(oldPixel, Threshold * Milli) THEN 0 ELSE White

\* line 42: oldPixel - newPixel
errorOf(oldPixel, newPixel) == [oldPixel EXCEPT !.ip = @ - newPixel * Milli]

\* a half-transparent pixel in the else branch
pixelBytes_half(newPixel) == IF newPixel = 0 THEN <<0, 0, 0, 255>> ELSE <<0, 0, 0, 128>>

\* a transparent white pixel in the else branch
pixelBytes_white(newPixel) == IF newPixel = 0 THEN <<0, 0, 0, 255>> ELSE <<255, 255, 255, 0>>

\* lines 45-57: the four bytes of the pixel at idx
pixelBytes(newPixel) == IF newPixel = 0 THEN <<0, 0, 0, 255>> ELSE <<0, 0, 0, 0>>

\* one guarded statement grayscale[ty * w + tx] += error * this.matrix[r][c]
Write(cond, tx, ty, w, error, r, c) ==
    IF cond THEN << [idx |-> ty * w + tx, amt |-> Weighted(error, r, c)] >> ELSE <<>>

\* row0Writes without the test of line 69
row0Writes_wrap(px, py, w, h, error) ==
    Write(TRUE, px + 2, py, w, error, 0, 2)
    \o Write(px + 3 < w, px + 3, py, w, error, 0, 3)

\* row0Writes diffusing to the left of the pixel
row0Writes_back(px, py, w, h, error) ==
    Write(px - 2 >= 0, px - 2, py, w, error, 0, 2)
    \o Write(px + 3 < w, px + 3, py, w, error, 0, 3)

\* lines 68-74: the current row, pixels to the right
row0Writes(px, py, w, h, error) ==
    Write(px + 2 < w, px + 2, py, w, error, 0, 2)
    \o Write(px + 3 < w, px + 3, py, w, error, 0, 3)

\* lines 76-91: the next row
row1Writes(px, py, w, h, error) ==
    IF py + 1 < h
    THEN Write(px - 2 >= 0, px - 2, py + 1, w, error, 1, 0)
         \o Write(px - 1 >= 0, px - 1, py + 1, w, error, 1, 1)
         \o Write(TRUE, px, py + 1, w, error, 1, 2)
         \o Write(px + 1 < w, px + 1, py + 1, w, error, 1, 3)
         \o Write(px + 2 < w, px + 2, py + 1, w, error, 1, 4)
    ELSE <<>>

\* row2Writes without the test of line 94
row2Writes_nocheck(px, py, w, h, error) ==
    Write(px - 1 >= 0, px - 1, py + 2, w, error, 2, 1)
    \o Write(TRUE, px, py + 2, w, error, 2, 2)
    \o Write(px + 1 < w, px + 1, py + 2, w, error, 2, 3)

\* lines 93-102: two rows down
row2Writes(px, py, w, h, error) ==
    IF py + 2 < h
    THEN Write(px - 1 >= 0, px - 1, py + 2, w, error, 2, 1)
         \o Write(TRUE, px, py + 2, w, error, 2, 2)
         \o Write(px + 1 < w, px + 1, py + 2, w, error, 2, 3)
    ELSE <<>>

\* lines 67-103: the writes grayscale[idx] += amt of one call, in order
diffusionWrites(px, py, w, h, error) ==
    row0Writes(px, py, w, h, error)
    \o row1Writes(px, py, w, h, error)
    \o row2Writes(px, py, w, h, error)

\* a typed array ignores a write outside its length
RECURSIVE ApplyWrites(_, _, _)
ApplyWrites(g, ws, k) ==
    IF k > Len(ws) THEN g
    ELSE LET t == ws[k].idx + 1
         IN  ApplyWrites(IF t \in 1..Len(g)
                         THEN [g EXCEPT ![t] = NumAdd(@, ws[k].amt)]
                         ELSE g,
                         ws, k + 1)

\* lines 67-103
distributeErrorGrayscale(g, px, py, w, h, error) ==
    ApplyWrites(g, diffusionWrites(px, py, w, h, error), 1)

\* ------------------------------------------------------------------ inputs
Bytes(pixels) ==
    [j \in 1..(4 * Len(pixels)) |-> pixels[((j - 1) \div 4) + 1][((j - 1) % 4) + 1]]

Images(n) ==
    IF n <= MaxFull
    THEN [1..n -> Palette]
    ELSE { [p \in 1..n |-> IF p = k THEN imp ELSE bg] :
             k \in 1..n, bg \in Palette, imp \in Palette }

Max0(n) == IF n > 0 THEN n ELSE 0

InitWith(w, h, pixels) ==
    /\ width = w
    /\ height = h
    /\ data = Bytes(pixels)
    /\ grayscale = <<>>
    /\ pc = "call"
    /\ x = 0
    /\ y = 0
    /\ run = 1
    /\ input = Bytes(pixels)
    /\ out1 = <<>>
    /\ visited = <<>>
    /\ lastOld = NumInt(0, 0)
    /\ lastNew = 0
    /\ lastError = NumInt(0, 0)
    /\ lastWrites = <<>>
    /\ dataWrites = {}
    /\ received = <<>>
    /\ exact = TRUE

\* the interface's inputs: positive dimensions, width*height*4 bytes
Init ==
    \E w \in 1..MaxW, h \in 1..MaxH :
        \E pixels \in Images(w * h) : InitWith(w, h, pixels)

\* any input: dimensions down to -1, and a buffer with one pixel too many
InitAnyInput ==
    \E w \in (-1)..MaxW, h \in (-1)..MaxH :
        \E pixels \in Images(Max0(w * h)), extra \in {<<>>, <<<<60, 60, 60, 255>>>>} :
            InitWith(w, h, pixels \o extra)

ValidInput == width > 0 /\ height > 0 /\ Len(input) = width * height * 4

\* ----------------------------------------------------------------- actions
\* lines 18-31: new Float32Array(width * height) throws a RangeError for a
\* negative length; otherwise the luminance of every pixel is stored
Begin ==
    /\ pc = "call"
    /\ IF width * height < 0
       THEN /\ pc' = "threw"
            /\ UNCHANGED <<grayscale, received>>
       ELSE /\ pc' = "scan"
            /\ grayscale' =
                 [k \in 1..(width * height) |->
                    Luminance(data[4 * (k - 1) + 1], data[4 * (k - 1) + 2],
                              data[4 * (k - 1) + 3], Limbs(width * height))]
            /\ received' =
                 [k \in 1..(width * height) |-> NumInt(0, Limbs(width * height))]
    /\ x' = 0
    /\ y' = 0
    /\ UNCHANGED <<width, height, data, run, input, out1, visited, lastOld, lastNew,
                   lastError, lastWrites, dataWrites, exact>>

\* lines 36-60, and the x++ of line 35
ScanPixel ==
    /\ pc = "scan"
    /\ y < height
    /\ x < width
    /\ LET i        == y * width + x
           idx      == i * 4
           oldPixel == grayscale[i + 1]
           newPixel == newPixelOf(oldPixel)
           error    == errorOf(oldPixel, newPixel)
           bytes    == pixelBytes(newPixel)
           ws       == diffusionWrites(x, y, width, height, error)
       IN  /\ data' = [j \in 1..Len(data) |->
                         IF j \in (idx + 1)..(idx + 4) THEN bytes[j - idx] ELSE data[j]]
           /\ grayscale' = distributeErrorGrayscale(grayscale, x, y, width, height, error)
           /\ visited' = Append(visited, i)
           /\ lastOld' = oldPixel
           /\ lastNew' = newPixel
           /\ lastError' = error
           /\ lastWrites' = ws
           /\ dataWrites' = (idx + 1)..(idx + 4)
           /\ received' = ApplyWrites(received, ws, 1)
           /\ exact' = (exact /\ \A k \in {2, 3, 4, 5} : ~DropsBits(NumMul(error, k)))
    /\ x' = x + 1
    /\ UNCHANGED <<width, height, pc, y, run, input, out1>>

\* line 35's condition fails: the y++ of line 34
NextRow ==
    /\ pc = "scan"
    /\ y < height
    /\ x >= width
    /\ y' = y + 1
    /\ x' = 0
    /\ UNCHANGED <<width, height, data, grayscale, pc, run, input, out1, visited,
                   lastOld, lastNew, lastError, lastWrites, dataWrites, received, exact>>

\* line 34's condition fails: line 64, return imageData
Return ==
    /\ pc = "scan"
    /\ y >= height
    /\ pc' = "done"
    /\ out1' = IF run = 1 THEN data ELSE out1
    /\ UNCHANGED <<width, height, data, grayscale, x, y, run, input, visited,
                   lastOld, lastNew, lastError, lastWrites, dataWrites, received, exact>>

\* the returned imageData is passed to process again
CallAgain ==
    /\ pc = "done"
    /\ run = 1
    /\ run' = 2
    /\ pc' = "call"
    /\ input' = data
    /\ visited' = <<>>
    /\ lastWrites' = <<>>
    /\ dataWrites' = {}
    /\ UNCHANGED <<width, height, data, grayscale, x, y, out1, lastOld, lastNew,
                   lastError, received, exact>>

Next == Begin \/ ScanPixel \/ NextRow \/ Return \/ CallAgain

Spec == Init /\ [][Next]_vars

SpecAnyInput == InitAnyInput /\ [][Next]_vars

\* ------------------------------------------------------------ model sanity
ExactArithmetic == exact

\* ------------------------------------------------------ reading the state
NumPixels == width * height

\* byte c (0 R, 1 G, 2 B, 3 A) of pixel p (from 0) of buffer d
Chan(d, p, c) == d[4 * p + c + 1]

PixelsOf(d) == 0..((Len(d) \div 4) - 1)

\* the luminance of pixel p of the current call's input
OrigLum(p) ==
    Luminance(Chan(input, p, 0), Chan(input, p, 1), Chan(input, p, 2), Limbs(NumPixels))

Visited == {visited[k] : k \in 1..Len(visited)}

HasVisit == Len(visited) > 0
LastI == visited[Len(visited)]
LastX == LastI % width
LastY == LastI \div width

Interior(px, py) == px >= 2 /\ px + 3 < width /\ py + 2 < height

RECURSIVE SumAmounts(_, _)
SumAmounts(ws, k) ==
    IF k > Len(ws) THEN NumInt(0, Limbs(NumPixels))
    ELSE NumAdd(ws[k].amt, SumAmounts(ws, k + 1))

\* ------------------------------------------------------------------ claims

\* C1: when process has returned, every pixel of the returned buffer has
\* R = 0, G = 0, B = 0 and alpha 0 or 255.
C1_Stencil ==
    pc = "done" =>
        \A p \in PixelsOf(data) :
            /\ Chan(data, p, 0) = 0
            /\ Chan(data, p, 1) = 0
            /\ Chan(data, p, 2) = 0
            /\ Chan(data, p, 3) \in {0, 255}

\* a first call has returned a stencil with both kinds of pixel, from an
\* input that had coloured and half-transparent pixels
C1_Witness ==
    /\ pc = "done"
    /\ run = 1
    /\ \E p, q \in PixelsOf(data) : Chan(data, p, 3) = 0 /\ Chan(data, q, 3) = 255
    /\ \E p \in PixelsOf(input) : Chan(input, p, 0) = 255 /\ Chan(input, p, 1) = 0
    /\ \E p \in PixelsOf(input) : Chan(input, p, 3) = 128

\* C2: an invalid input (width <= 0, height <= 0, or a data length other
\* than width*height*4) is rejected: process does not return it as a result
\* and no byte of the buffer is modified.
C2_RejectsInvalid ==
    (run = 1 /\ ~ValidInput) => (pc # "done" /\ data = input)

\* C3: a classified pixel is opaque black (alpha 255) exactly when its
\* original luminance plus every amount diffused to it is strictly below 60,
\* and that sum is the value the classification read.
C3_AdjustedThreshold ==
    /\ \A p \in Visited :
          (Chan(data, p, 3) = 255)
              <=> NumLess(NumAdd(OrigLum(p), received[p + 1]), 60000)
    /\ \A p \in Visited : Chan(data, p, 3) \in {0, 255}
    /\ (HasVisit /\ pc = "scan") =>
          lastOld = NumAdd(OrigLum(LastI), received[LastI + 1])

\* one pixel was dark (below 60) and came out transparent, another was bright
\* (60 or more) and came out black: both were classified by the adjusted value
C3_Witness ==
    /\ \E p \in Visited : NumLess(OrigLum(p), 60000) /\ Chan(data, p, 3) = 0
    /\ \E p \in Visited : NumAtLeast(OrigLum(p), 60000) /\ Chan(data, p, 3) = 255

\* C4: for an interior pixel (x >= 2, x + 3 < width, y + 2 < height) the
\* amounts added to the grayscale buffer sum to exactly the pixel's error.
C4_InteriorConservation ==
    (HasVisit /\ Interior(LastX, LastY)) =>
        /\ SumAmounts(lastWrites, 1) = lastError
        /\ Len(lastWrites) = 10

\* an interior pixel with a non-zero error has just been classified
C4_Witness ==
    /\ HasVisit
    /\ pc = "scan"
    /\ Interior(LastX, LastY)
    /\ ~NumIsZero(lastError)
    /\ lastError.ip < 0

\* the kernel as the specification tabulates it: <<row offset, column
\* offset, weight * 32>>
KernelTable ==
    { <<0, 2, 5>>, <<0, 3, 3>>,
      <<1, -2, 2>>, <<1, -1, 4>>, <<1, 0, 5>>, <<1, 1, 4>>, <<1, 2, 2>>,
      <<2, -1, 2>>, <<2, 0, 3>>, <<2, 1, 2>> }

InBounds(px, py) == px >= 0 /\ px < width /\ py >= 0 /\ py < height

\* the writes a clipped kernel makes for the last classified pixel
ClippedTargets ==
    { k \in KernelTable : InBounds(LastX + k[2], LastY + k[1]) }

\* C5: the writes of a pixel are exactly the in-bounds kernel targets, each
\* with error * weight, and nothing else; the bottom-right pixel writes
\* nothing and an interior pixel writes all ten.
C5_Clipped ==
    HasVisit =>
        /\ Len(lastWrites) = Cardinality(ClippedTargets)
        /\ \A k \in ClippedTargets :
              \E n \in 1..Len(lastWrites) :
                  /\ lastWrites[n].idx = (LastY + k[1]) * width + (LastX + k[2])
                  /\ lastWrites[n].amt = NumDiv32(NumMul(lastError, k[3]))
        /\ (LastI = NumPixels - 1) => lastWrites = <<>>
        /\ Interior(LastX, LastY) => Len(lastWrites) = 10

\* the bottom-right pixel of an image with interior pixels has just been
\* classified with a non-zero error and has written nothing
C5_Witness ==
    /\ HasVisit
    /\ pc = "scan"
    /\ run = 1
    /\ LastI = NumPixels - 1
    /\ width >= 6
    /\ height >= 3
    /\ ~NumIsZero(lastError)
    /\ lastWrites = <<>>

\* the 4x1 image whose pixels all have luminance 10, in its first call
Is4x1Lum10 ==
    /\ run = 1
    /\ width = 4
    /\ height = 1
    /\ \A p \in PixelsOf(input) : OrigLum(p) = NumInt(10000, Limbs(4))

\* C6 as stated: four opaque black pixels and no grayscale entry changed by
\* diffusion at any point of the scan.
C6_NoPropagation ==
    Is4x1Lum10 =>
        /\ pc = "done" => \A p \in 0..3 : Chan(data, p, 3) = 255
        /\ pc \in {"scan", "done"} => \A p \in 0..3 : grayscale[p + 1] = OrigLum(p)
        /\ lastWrites = <<>>

\* 10 * k / 32 in thousandths
TenTimes(k) == NumDiv32(NumMul(NumInt(10000, Limbs(4)), k))

\* C6 amended: four opaque black pixels; entries 0 and 1 are never changed,
\* pixel 0 adds 10*5/32 to entry 2 and 10*3/32 to entry 3, pixel 1 adds
\* 10*5/32 to entry 3, and pixels 2 and 3 write nothing.
C6_PropagatesInsideRow ==
    Is4x1Lum10 =>
        /\ pc = "done" =>
              /\ \A p \in 0..3 : Chan(data, p, 3) = 255
              /\ grayscale[3] = NumAdd(OrigLum(2), TenTimes(5))
              /\ grayscale[4] = NumAdd(OrigLum(3), NumAdd(TenTimes(3), TenTimes(5)))
        /\ pc \in {"scan", "done"} =>
              /\ grayscale[1] = OrigLum(0)
              /\ grayscale[2] = OrigLum(1)
              /\ \A p \in 0..3 : NumLess(grayscale[p + 1], 60000)
        /\ (HasVisit /\ LastI = 0) =>
              lastWrites = << [idx |-> 2, amt |-> TenTimes(5)],
                              [idx |-> 3, amt |-> TenTimes(3)] >>
        /\ (HasVisit /\ LastI = 1) =>
              lastWrites = << [idx |-> 3, amt |-> TenTimes(5)] >>
        /\ (HasVisit /\ LastI >= 2) => lastWrites = <<>>

\* the 4x1 image has been processed to its end
C6_Witness ==
    /\ Is4x1Lum10
    /\ pc = "done"
    /\ Len(visited) = 4

\* C7: width, height and the length of the data buffer never change, the
\* buffer has width*height*4 bytes, and every write goes to an index inside
\* the data buffer or the grayscale buffer.
C7_ShapeInv ==
    /\ Len(data) = width * height * 4
    /\ Len(data) = Len(input)
    /\ pc = "done" => Len(out1) = width * height * 4
    /\ \A j \in dataWrites : j - 1 >= 0 /\ j - 1 < width * height * 4
    /\ \A n \in 1..Len(lastWrites) :
          lastWrites[n].idx >= 0 /\ lastWrites[n].idx < width * height
    /\ pc \in {"scan", "done"} => Len(grayscale) = width * height

C7_ShapePreserved ==
    /\ []C7_ShapeInv
    /\ [][width' = width /\ height' = height /\ Len(data') = Len(data)]_vars

\* a call on the largest image has returned
C7_Witness ==
    /\ pc = "done"
    /\ run = 1
    /\ width = MaxW
    /\ height = MaxH
    /\ Len(data) = MaxW * MaxH * 4

\* the steps a call still has to take: one per pixel, one per row end, the
\* return, and the allocation
Remaining ==
    IF pc = "call" THEN (width + 1) * height + 2
    ELSE IF pc = "scan"
         THEN (IF y < height THEN (height - y) * (width + 1) - x ELSE 0) + 1
         ELSE 0

\* C8: the pixels are classified once each in row-major order, the call
\* returns after exactly width*height classifications, every diffusion
\* write of pixel i goes to an index above i, a classified pixel's grayscale
\* entry and bytes never change again during the call, and every step of a
\* call brings its return nearer (the scan terminates).
C8_OrderInv ==
    /\ \A k \in 1..Len(visited) : visited[k] = k - 1
    /\ pc = "scan" => Len(visited) = (IF y < height THEN y * width + x ELSE NumPixels)
    /\ pc = "scan" => (x >= 0 /\ x <= width /\ y >= 0 /\ y <= height)
    /\ pc = "done" => Len(visited) = NumPixels
    /\ HasVisit => \A n \in 1..Len(lastWrites) : lastWrites[n].idx > LastI
    /\ HasVisit => grayscale[LastI + 1] = lastOld

C8_ClassifiedFrozen ==
    \A p \in Visited :
        /\ pc' = "scan" => grayscale'[p + 1] = grayscale[p + 1]
        /\ \A c \in 0..3 : Chan(data', p, c) = Chan(data, p, c)

C8_Nearer ==
    pc \in {"call", "scan"} => (Remaining' < Remaining /\ Remaining' >= 0)

C8_SinglePass ==
    /\ []C8_OrderInv
    /\ [][C8_ClassifiedFrozen /\ C8_Nearer]_vars

\* a scan of several rows has returned
C8_Witness ==
    /\ pc = "done"
    /\ run = 1
    /\ width >= 3
    /\ height >= 2
    /\ Len(visited) = width * height

\* C9: process applied to its own output returns a buffer whose pixels are
\* all opaque black, so it differs from the first output whenever that one
\* has a transparent pixel.
C9_SecondPassBlack ==
    (run = 2 /\ pc = "done") =>
        /\ \A p \in PixelsOf(data) : Chan(data, p, 3) = 255
        /\ (\E p \in PixelsOf(out1) : Chan(out1, p, 3) = 0) => data # out1

\* the second call has returned and the first output had a transparent pixel
C9_Witness ==
    /\ run = 2
    /\ pc = "done"
    /\ \E p \in PixelsOf(out1) : Chan(out1, p, 3) = 0
    /\ \E p \in PixelsOf(out1) : Chan(out1, p, 3) = 255

\* C10: the error of a classified pixel is in [-195, 60) and every
\* grayscale entry is in [-195, 315) at all times.
C10_Bounded ==
    /\ NumAtLeast(lastError, -195000) /\ NumLess(lastError, 60000)
    /\ \A k \in 1..Len(grayscale) :
          NumAtLeast(grayscale[k], -195000) /\ NumLess(grayscale[k], 315000)

\* the error -195 has occurred and has pushed an entry below 0
C10_Witness ==
    /\ HasVisit
    /\ lastError = NumInt(-195000, Limbs(NumPixels))
    /\ \E k \in 1..Len(grayscale) : NumLess(grayscale[k], 0)

====
